---- MODULE Spec2Model ----
(***************************************************************************)
(* Model of NSXTBaseRealizableResource (module_utils/nsxt_base_resource.py):*)
(* the recursive realization of a tree of policy resources against the     *)
(* manager's API.  One run is one Ansible module process: realize() of the *)
(* base resource, which realizes its sub-resources recursively and ends    *)
(* the process with exit_json or fail_json.                                *)
(***************************************************************************)
EXTENDS Integers, Sequences, FiniteSets, TLC

(***************************************************************************)
(* Resource classes.  "r" is the base resource (the only member of         *)
(* BASE_RESOURCES that is realized); the others are sub-resource classes   *)
(* nested in a class body.                                                 *)
(***************************************************************************)
Nodes == {"r", "a", "b", "c", "g"}

BASE_RESOURCES == {"r"}

INCORRECT_ARGUMENT_NAME_VALUE == "error_invalid_parameter"

(***************************************************************************)
(* Python values.  A value is a record tagged by t: "none" (None), "s" (a   *)
(* scalar, here an integer, in field s), "l" (a list of scalars, in field  *)
(* l) or "d" (a dict, from keys to values, in field v).  Each kind has its *)
(* own fields, so that values of two kinds are unequal records.            *)
(***************************************************************************)
None == [t |-> "none"]

Scalar(x) == [t |-> "s", s |-> x]

Dict(f) == [t |-> "d", v |-> f]

EmptyDict == [t |-> "d", v |-> <<>>]

\* Python truthiness: None, 0, an empty list and an empty dict are false.
Truthy(x) ==
    CASE x.t = "none" -> FALSE
      [] x.t = "s" -> x.s # 0
      [] x.t = "l" -> Len(x.l) > 0
      [] x.t = "d" -> DOMAIN x.v # {}

\* (mutant) lists are compared as bags of elements
ValEq_unordered(x, y) ==
    /\ x.t = y.t
    /\ IF x.t = "l"
       THEN /\ Len(x.l) = Len(y.l)
            /\ \A e \in {x.l[i] : i \in DOMAIN x.l} :
                  Cardinality({i \in DOMAIN x.l : x.l[i] = e})
                      = Cardinality({i \in DOMAIN y.l : y.l[i] = e})
       ELSE x = y

\* Python ==, on values of this encoding.
ValEq(x, y) == x = y

\* (mutant) every existing resource counts as updated
check_for_update_always(existing_params, resource_params) ==
    Truthy(existing_params)

(***************************************************************************)
(* check_for_update: True when some key of resource_params is missing from *)
(* existing_params or has another value there; dict values are traversed,  *)
(* any other value is compared with !=.                                    *)
(***************************************************************************)
RECURSIVE check_for_update(_, _)
check_for_update(existing_params, resource_params) ==
    IF ~Truthy(existing_params) THEN FALSE
    ELSE \E k \in DOMAIN resource_params.v :
            LET v == resource_params.v[k] IN
            IF k \notin DOMAIN existing_params.v THEN TRUE
            ELSE IF v.t = "d" THEN check_for_update(existing_params.v[k], v)
            ELSE ~ValEq(v, existing_params.v[k])

(***************************************************************************)
(* _fill_missing_resource_params: the value of resource_params after the   *)
(* call.  Keys of existing_params that resource_params lacks are copied;   *)
(* where the existing value is a dict the fill recurses.                   *)
(***************************************************************************)
RECURSIVE _fill_missing_resource_params(_, _)
_fill_missing_resource_params(existing_params, resource_params) ==
    IF ~Truthy(existing_params) THEN resource_params
    ELSE Dict([k \in (DOMAIN existing_params.v) \cup (DOMAIN resource_params.v) |->
                 IF k \notin DOMAIN resource_params.v THEN existing_params.v[k]
                 ELSE IF k \in DOMAIN existing_params.v /\ existing_params.v[k].t = "d"
                      THEN _fill_missing_resource_params(existing_params.v[k],
                                                        resource_params.v[k])
                      ELSE resource_params.v[k]])

(***************************************************************************)
(* The same call with what can go wrong in it.  Where existing_params has  *)
(* a non-empty dict and resource_params has, under the same key, something *)
(* that is not a dict (None for a sub-option the user left out), the test  *)
(* `k not in resource_params` of the nested call raises TypeError.  The    *)
(* fill is in place, so what was filled before stays filled, and what that *)
(* is depends on the order in which existing_params is iterated: `order`   *)
(* lists the keys as the dicts hold them.                                  *)
(* FillOutcome is [raised, v]: whether the call raised, and the value of   *)
(* resource_params when it ended.                                          *)
(***************************************************************************)
RECURSIVE FillOutcome(_, _, _)
RECURSIVE FillKeys(_, _, _, _)
FillKeys(existing_params, resource_params, keys, order) ==
    IF keys = <<>> THEN [raised |-> FALSE, v |-> resource_params]
    ELSE LET k == Head(keys)
             v == existing_params.v[k]
         IN  IF k \notin DOMAIN resource_params.v
             THEN FillKeys(existing_params, Dict((k :> v) @@ resource_params.v),
                           Tail(keys), order)
             ELSE IF v.t = "d"
                  THEN LET sub == FillOutcome(v, resource_params.v[k], order)
                           now == Dict([resource_params.v EXCEPT ![k] = sub.v])
                       IN  IF sub.raised THEN [raised |-> TRUE, v |-> now]
                           ELSE FillKeys(existing_params, now, Tail(keys), order)
                  ELSE FillKeys(existing_params, resource_params, Tail(keys), order)

FillOutcome(existing_params, resource_params, order) ==
    IF ~Truthy(existing_params) THEN [raised |-> FALSE, v |-> resource_params]
    ELSE IF resource_params.t # "d" THEN [raised |-> TRUE, v |-> resource_params]
    ELSE LET has(k) == k \in DOMAIN existing_params.v
         IN  FillKeys(existing_params, resource_params, SelectSeq(order, has), order)

\* The names of the params, in the two orders the dicts may hold them.
KeyOrder == <<"display_name", "x", "y", "tags", "opt", "adv", "id", "_revision">>

KeyOrders ==
    {KeyOrder, [i \in DOMAIN KeyOrder |-> KeyOrder[Len(KeyOrder) + 1 - i]]}

(***************************************************************************)
(* _wait_till_create.  A status string is a sequence of characters, so     *)
(* that Python's `in` between strings (substring) is what it is.           *)
(***************************************************************************)
S_pending == <<"p","e","n","d","i","n","g">>

S_in_progress == <<"i","n","_","p","r","o","g","r","e","s","s">>

S_partial_success == <<"p","a","r","t","i","a","l","_","s","u","c","c","e","s","s">>

S_success == <<"s","u","c","c","e","s","s">>

S_failed == <<"f","a","i","l","e","d">>

IN_PROGRESS_STATES == <<S_pending, S_in_progress>>

SUCCESS_STATES == <<S_partial_success, S_success>>

\* Number of waits after which _wait_till_create gives up.
MAX_WAIT_COUNT == 90

HTTP_OK == 200

\* Python `s in t` for strings.
StrIn(s, t) ==
    \E i \in 0..(Len(t) - Len(s)) : SubSeq(t, i + 1, i + Len(s)) = s

\* any(state in status for status in states)
AnyIn(state, states) == \E j \in DOMAIN states : StrIn(state, states[j])

(***************************************************************************)
(* A response of the API to a GET: it raises, or it returns (rc, resp)     *)
(* where resp may carry a 'state' field.  A stream of responses answers    *)
(* the first n fetches with `lead` and every later one with `final`.       *)
(***************************************************************************)
Resp(raises, has_state, state, rc) ==
    [raises |-> raises, has_state |-> has_state, state |-> state, rc |-> rc]

RespState(state) == Resp(FALSE, TRUE, state, HTTP_OK)

RespCode(rc) == Resp(FALSE, FALSE, <<>>, rc)

RespRaise == Resp(TRUE, FALSE, <<>>, 0)

Stream(lead, n, final) == [lead |-> lead, n |-> n, final |-> final]

NthResp(stream, i) == IF i <= stream.n THEN stream.lead ELSE stream.final

\* (mutant) a response without state and with another code than 200 is a failure
Classify_code_fails(resp) ==
    IF resp.raises THEN "failure"
    ELSE IF resp.has_state
         THEN IF AnyIn(resp.state, IN_PROGRESS_STATES) THEN "wait"
              ELSE IF AnyIn(resp.state, SUCCESS_STATES) THEN "success"
                   ELSE "failure"
         ELSE IF resp.rc # HTTP_OK THEN "failure" ELSE "success"

\* What _wait_till_create does with one response: "wait" (sleep, count, fetch
\* again), or return True ("success") or False ("failure").
Classify(resp) ==
    IF resp.raises THEN "failure"
    ELSE IF resp.has_state
         THEN IF AnyIn(resp.state, IN_PROGRESS_STATES) THEN "wait"
              ELSE IF AnyIn(resp.state, SUCCESS_STATES) THEN "success"
                   ELSE "failure"
         ELSE IF resp.rc # HTTP_OK THEN "wait" ELSE "success"

\* The loop of _wait_till_create: every fetch before the last one was answered
\* by a response to wait on, so count is i - 1 when the i-th fetch is made, and
\* the loop ends with the first fetch whose response returns or whose wait is
\* the MAX_WAIT_COUNT-th.  [ok |-> the value returned, fetches |-> the fetches made].
_wait_till_create(stream) ==
    LET Ends(i) == Classify(NthResp(stream, i)) # "wait" \/ i = MAX_WAIT_COUNT
        last == CHOOSE i \in 1..MAX_WAIT_COUNT :
                    Ends(i) /\ \A j \in 1..(i - 1) : ~Ends(j)
    IN  [ok |-> Classify(NthResp(stream, last)) = "success", fetches |-> last]

(***************************************************************************)
(* The sub-resource classes of a class in the order they are realized:     *)
(* list.sort is stable, also with reverse=True.                            *)
(***************************************************************************)
SortByPriority(subs, prio, reverse) ==
    LET before(i, j) ==
            IF prio[subs[i]] = prio[subs[j]] THEN i < j
            ELSE IF reverse THEN prio[subs[i]] > prio[subs[j]]
                 ELSE prio[subs[i]] < prio[subs[j]]
        rank(i) == 1 + Cardinality({j \in DOMAIN subs : before(j, i)})
    IN  [p \in DOMAIN subs |-> subs[CHOOSE i \in DOMAIN subs : rank(i) = p]]

(***************************************************************************)
(* The state of one run.                                                   *)
(*   cfg        what the run is given: the nesting of the resource classes *)
(*              and their overridable methods, the module parameters, the  *)
(*              check mode, and whether the caller of realize passes a     *)
(*              list of its own for the logs                               *)
(*   remote     the manager's store: the resource under each class's URL   *)
(*   _state, id, existing_resource, resource_params                         *)
(*              the attributes of each resource object                     *)
(*   _parent    _parent_info["_parent"]: one dict is shared by all the     *)
(*              objects of a run                                           *)
(*   stack      the call stack of realize / _achieve_state                 *)
(*   logs       the two lists the records go to: the caller's, and the     *)
(*              default value of realize's successful_resource_exec_logs   *)
(*   outcome    how the process ended, output: what it printed             *)
(* History:  remote0 (the store when the run began); requests (every API   *)
(* request with its result) and appended (every record appended, to either *)
(* list), each entry stamped with its place `at` in the order of both;     *)
(* achieved (the resources whose own state was gone for); waited (how the  *)
(* _wait_till_create of a resource ended) and wait_fetches (the fetches it *)
(* made); faults (the failures the API client has signalled); polls; run.  *)
(* Inside the loop of _wait_till_create, when it is followed fetch by      *)
(* fetch: wait_stream (what the manager answers to its fetches) and count  *)
(* (its local variable).                                                   *)
(* check_for_update and _fill_missing_resource_params called on their own: *)
(* given (the arguments, and the order in which the dicts hold their       *)
(* keys), filled (resource_params after the fill) and returned (what       *)
(* check_for_update returned).                                             *)
(***************************************************************************)
VARIABLES cfg, remote, remote0, _state, id, existing_resource, resource_params,
          _parent, stack, logs, appended, requests, outcome, output,
          faults, polls, wait_fetches, waited, achieved, run,
          wait_stream, count, given, filled, returned

vars == <<cfg, remote, remote0, _state, id, existing_resource, resource_params,
          _parent, stack, logs, appended, requests, outcome, output,
          faults, polls, wait_fetches, waited, achieved, run,
          wait_stream, count, given, filled, returned>>

pollvars == <<wait_stream, count>>

diffvars == <<given, filled, returned>>

\* Bounds of the model.
MaxFaults == 1

MaxDeletePolls == 1

(***************************************************************************)
(* Inputs.                                                                 *)
(***************************************************************************)
NoSubs == [n \in Nodes |-> <<>>]

\* Class nestings: a base resource with three sub-resources; with two, one of
\* which has a sub-resource of its own; with one.
TreeWide == [NoSubs EXCEPT !["r"] = <<"a", "b", "c">>]

TreeDeep == [NoSubs EXCEPT !["r"] = <<"a", "b">>, !["a"] = <<"g">>]

TreeSmall == [NoSubs EXCEPT !["r"] = <<"a">>]

RECURSIVE Descendants(_, _)
Descendants(sub, n) ==
    {sub[n][i] : i \in DOMAIN sub[n]} \cup
    UNION {Descendants(sub, sub[n][i]) : i \in DOMAIN sub[n]}

InTree(sub) == {"r"} \cup Descendants(sub, "r")

Priorities == {1, 5, 10}

\* The params a resource object extracts from the module's parameters
\* (_extract_resource_params: never 'id' nor 'state'; display_name is required).
Desired == Dict("display_name" :> Scalar(1))

\* What the manager may hold for a resource; every resource it holds carries
\* its 'id' and its '_revision'.
RemoteSame ==
    Dict(("display_name" :> Scalar(1)) @@ ("id" :> Scalar(9)) @@ ("_revision" :> Scalar(7)))

RemoteDiff ==
    Dict(("display_name" :> Scalar(2)) @@ ("id" :> Scalar(9)) @@ ("_revision" :> Scalar(7)))

\* The methods a resource class may override, with the base class's answers.
DefaultConfig(sub) ==
    [sub |-> sub,
     prio |-> [n \in Nodes |-> 1],
     specified |-> [n \in Nodes |-> n \in InTree(sub)],
     state |-> [n \in Nodes |-> IF n \in InTree(sub) THEN "present"
                                ELSE INCORRECT_ARGUMENT_NAME_VALUE],
     if_del_parent |-> [n \in Nodes |-> FALSE],
     create_first |-> [n \in Nodes |-> FALSE],
     delete_first |-> [n \in Nodes |-> TRUE],
     wait |-> [n \in Nodes |-> FALSE],
     check_mode |-> FALSE,
     explicit_logs |-> FALSE]

\* What the user may give for a sub-resource: <<is its id given, its state>>.
\* Both parameters are optional for a sub-resource.
UserChoices == {<<FALSE, INCORRECT_ARGUMENT_NAME_VALUE>>,
                <<FALSE, "present">>, <<FALSE, "absent">>,
                <<TRUE, "present">>, <<TRUE, "absent">>}

WithUser(c, n, u) ==
    [c EXCEPT !.specified[n] = u[1], !.state[n] = u[2]]

ConfigsWide ==
    {[DefaultConfig(TreeWide) EXCEPT
         !.prio = pr @@ @, !.state["r"] = st]
       : pr \in {q \in [{"a", "b", "c"} -> Priorities] : q["c"] # 10},
         st \in {"present", "absent"}}

ConfigsDeep ==
    {[WithUser(WithUser(WithUser(DefaultConfig(TreeDeep), "a", ua), "b", ub), "g", ug)
        EXCEPT !.state["r"] = st, !.check_mode = cm,
               !.if_del_parent["a"] = oa, !.prio["b"] = pb]
       : st \in {"present", "absent"}, cm \in BOOLEAN,
         ua \in UserChoices, ub \in {u \in UserChoices : u[1]},
         ug \in {u \in UserChoices : u[1] \/ u[2] = INCORRECT_ARGUMENT_NAME_VALUE},
         oa \in BOOLEAN, pb \in {1, 5}}

ConfigsSmall ==
    {[WithUser(DefaultConfig(TreeSmall), "a", ua)
        EXCEPT !.state["r"] = st, !.check_mode = cm,
               !.if_del_parent["a"] = oa,
               !.create_first["r"] = fl[1], !.delete_first["r"] = fl[2],
               !.wait = [n \in Nodes |-> fl[3]]]
       : st \in {"present", "absent"}, cm \in BOOLEAN,
         ua \in UserChoices, oa \in BOOLEAN,
         fl \in {<<FALSE, TRUE, FALSE>>, <<TRUE, TRUE, FALSE>>,
                 <<FALSE, FALSE, FALSE>>, <<FALSE, TRUE, TRUE>>}}

\* The stores a run may start from.  A resource the user did not specify has
\* no URL of its own, so nothing is found under it.
UniformRemote(c, x) ==
    [n \in Nodes |-> IF n \in InTree(c.sub) /\ c.specified[n] THEN x ELSE None]

RemotesOf(c) ==
    IF c.sub = TreeSmall
    THEN {[UniformRemote(c, None) EXCEPT !["r"] = x,
             !["a"] = IF c.specified["a"] THEN y ELSE None]
            : x \in {None, RemoteSame, RemoteDiff},
              y \in {None, RemoteSame, RemoteDiff}}
    ELSE {UniformRemote(c, x) : x \in {None, RemoteSame}}

\* Nothing is called on its own.
NoCall ==
    /\ given = [existing_params |-> None, resource_params |-> EmptyDict,
                order |-> KeyOrder]
    /\ filled = [called |-> FALSE, raised |-> FALSE, v |-> EmptyDict]
    /\ returned = "not called"

\* The attributes of the objects and the lists of a fresh process.
Fresh ==
    /\ _state = [n \in Nodes |-> "unset"]
    /\ id = [n \in Nodes |-> "unset"]
    /\ existing_resource = [n \in Nodes |-> None]
    /\ resource_params = [n \in Nodes |-> EmptyDict]
    /\ _parent = "unset"
    /\ stack = <<[node |-> "r", phase |-> "realize", subs |-> <<>>,
                  logs |-> IF cfg.explicit_logs THEN "caller" ELSE "default",
                  scm |-> "true"]>>
    /\ logs = [caller |-> <<>>, default |-> <<>>]
    /\ appended = <<>>
    /\ requests = <<>>
    /\ outcome = "running"
    /\ output = [has_logs |-> FALSE, logs |-> <<>>]
    /\ polls = 0
    /\ wait_fetches = 0
    /\ waited = [n \in Nodes |-> "no"]
    /\ achieved = {}

Init ==
    /\ cfg \in ConfigsWide \cup ConfigsDeep \cup ConfigsSmall
    /\ remote \in RemotesOf(cfg)
    /\ remote0 = remote
    /\ faults = 0
    /\ run = 1
    /\ Fresh
    /\ wait_stream = Stream(RespRaise, 0, RespRaise)
    /\ count = 0
    /\ NoCall

(***************************************************************************)
(* Helpers of the actions.                                                 *)
(***************************************************************************)
Top == stack[Len(stack)]

Running == outcome = "running" /\ stack # <<>>

Pop == SubSeq(stack, 1, Len(stack) - 1)

SetTop(f) == [stack EXCEPT ![Len(stack)] = f]

Rec(n, changed, what) == [node |-> n, changed |-> changed, what |-> what]

Req(method, n, result, at) ==
    [method |-> method, node |-> n, result |-> result, at |-> at]

\* The place in the history of the next request or record.
Clock == Len(requests) + Len(appended) + 1

\* What the API client may do with a request: answer it, fail with an error of
\* the API, or signal DuplicateRequestError.
Results == {"ok", "error", "duplicate"}

MayAnswer(res) == res = "ok" \/ faults < MaxFaults

Count(res) == IF res = "ok" THEN faults ELSE faults + 1

\* _getAttribute: 'state' and 'id' of a resource from the module's parameters.
_getAttribute(n, attribute) ==
    IF n \in BASE_RESOURCES
    THEN IF attribute = "state" THEN cfg.state[n]
         ELSE IF cfg.specified[n] THEN n ELSE INCORRECT_ARGUMENT_NAME_VALUE
    ELSE IF attribute = "state" /\ _state[_parent] = "absent"
            /\ ~cfg.if_del_parent[n]
         THEN "absent"
         ELSE IF attribute = "state" THEN cfg.state[n]
              ELSE IF cfg.specified[n] THEN n ELSE INCORRECT_ARGUMENT_NAME_VALUE

_extract_resource_params(n) == IF cfg.specified[n] THEN Desired ELSE EmptyDict

\* (mutant) the two sort orders exchanged
_get_sub_resources_class_of_swapped(n, st) ==
    SortByPriority(cfg.sub[n], cfg.prio, st # "present")

\* _get_sub_resources_class_of, called by an object whose _state is st.
_get_sub_resources_class_of(n, st) ==
    SortByPriority(cfg.sub[n], cfg.prio, st = "present")

\* (mutant) the flag of the other state is asked
SubresourcesFirst_swapped(n, st) ==
    \/ st = "present" /\ cfg.delete_first[n]
    \/ st = "absent" /\ cfg.create_first[n]

\* _achieve_state: are the sub-resources realized before the resource itself,
\* and are they realized after it.
SubresourcesFirst(n, st) ==
    \/ st = "present" /\ cfg.create_first[n]
    \/ st = "absent" /\ cfg.delete_first[n]

\* (mutant) the sub-resources are realized after the resource in any case
SubresourcesLast_always(n, st) == TRUE

SubresourcesLast(n, st) ==
    \/ st = "present" /\ ~cfg.create_first[n]
    \/ st = "absent" /\ ~cfg.delete_first[n]

\* AnsibleModule(supports_check_mode=...) ends the process with
\* exit_json(skipped=True) when check mode is asked of a module that does not
\* support it.  A sub-resource is given its parent's logs for that argument.
SupportsCheckMode(f) == f.scm = "true" \/ Len(logs[f.scm]) > 0

\* successful_resource_exec_logs.append(...)
Log(f, rec, at) ==
    /\ logs' = [logs EXCEPT ![f.logs] = Append(@, rec)]
    /\ appended' = Append(appended, [node |-> rec.node, changed |-> rec.changed,
                                     what |-> rec.what, at |-> at])

\* An exception nothing catches: the process dies with a traceback.
Crash ==
    /\ outcome' = "exception"
    /\ stack' = <<>>
    /\ UNCHANGED output

\* (mutant) the value of _wait_till_create is not looked at
WaitFailed_ignored(n, w) == FALSE

\* if self.do_wait_till_create() and not self._wait_till_create(): raise
WaitFailed(n, w) == cfg.wait[n] /\ ~w.ok

\* (mutant) check mode is never seen
check_mode_unseen == FALSE

\* self.module.check_mode
check_mode == cfg.check_mode

\* After the resource's own state is achieved: on to its sub-resources, if they
\* come last.
Continue(f) ==
    /\ stack' = SetTop([f EXCEPT !.phase = "post",
                          !.subs = IF SubresourcesLast(f.node, _state[f.node])
                                   THEN _get_sub_resources_class_of(f.node, _state[f.node])
                                   ELSE <<>>])
    /\ UNCHANGED <<outcome, output>>

\* (mutant) the failure is swallowed and the run goes on
FailJson_swallowed(f) == Continue(f)

\* module.fail_json(msg=..., successfully_updated_resources=srel)
FailJson(f) ==
    /\ outcome' = "fail_json"
    /\ output' = [has_logs |-> TRUE, logs |-> logs[f.logs]]
    /\ stack' = <<>>

\* (mutant) no id is taken for the missing one
Unspecified_never(ident) == FALSE

\* if self.id == self.INCORRECT_ARGUMENT_NAME_VALUE: return
Unspecified(ident) == ident = INCORRECT_ARGUMENT_NAME_VALUE

\* (mutant) what the manager holds is taken whatever the fetch did
FetchFound_always(result, raised) == TRUE

\* The try of realize: existing_resource is what the fetch returned unless the
\* fetch or the fill raised, and None (the except) when one of them did.
FetchFound(result, raised) == result = "ok" /\ ~raised

AtSelf == Running /\ (Top.phase = "self" \/ (Top.phase = "pre" /\ Top.subs = <<>>))

(***************************************************************************)
(* realize, up to and with the first lines of _achieve_state.              *)
(***************************************************************************)
Realize ==
    /\ Running /\ Top.phase = "realize"
    /\ LET f == Top
           n == f.node
       IN  \/ /\ check_mode /\ ~SupportsCheckMode(f)
              /\ outcome' = "skipped"
              /\ stack' = <<>>
              /\ UNCHANGED <<_state, id, existing_resource, resource_params,
                             _parent, requests, faults, output>>
           \/ /\ ~(cfg.check_mode /\ ~SupportsCheckMode(f))
              /\ \E res \in Results, order \in KeyOrders :
                   LET st == _getAttribute(n, "state")
                       ident == _getAttribute(n, "id")
                       result == IF res = "ok" /\ remote[n].t = "none"
                                 THEN "notfound" ELSE res
                       params == _extract_resource_params(n)
                       fill == FillOutcome(remote[n], params, order)
                   IN  /\ MayAnswer(res)
                       /\ faults' = Count(res)
                       /\ _state' = [_state EXCEPT ![n] = st]
                       /\ id' = [id EXCEPT ![n] = ident]
                       /\ _parent' = n
                       /\ requests' = Append(requests, Req("GET", n, result, Clock))
                       /\ existing_resource' =
                            [existing_resource EXCEPT
                               ![n] = IF FetchFound(result, fill.raised)
                                      THEN remote[n] ELSE None]
                       /\ resource_params' =
                            [resource_params EXCEPT
                               ![n] = IF result = "ok" THEN fill.v ELSE params]
                       /\ stack' =
                            IF Unspecified(ident) THEN Pop
                            ELSE IF SubresourcesFirst(n, st)
                                 THEN SetTop([f EXCEPT !.phase = "pre",
                                     !.subs = _get_sub_resources_class_of(n, st)])
                                 ELSE SetTop([f EXCEPT !.phase = "self"])
                       /\ UNCHANGED <<outcome, output>>
    /\ UNCHANGED <<cfg, remote, remote0, logs, appended, polls, wait_fetches, waited, achieved, run>>
    /\ UNCHANGED <<pollvars, diffvars>>

(***************************************************************************)
(* achieve_subresource_state: one turn of its loop.  The next sub-resource *)
(* is created and realize is called on it with the logs as its first       *)
(* positional argument, which is supports_check_mode: its own logs are the *)
(* default value of the parameter.                                         *)
(***************************************************************************)
SubresourceRealize ==
    /\ Running /\ Top.phase \in {"pre", "post"} /\ Top.subs # <<>>
    /\ stack' = Append(SetTop([Top EXCEPT !.subs = Tail(@)]),
                       [node |-> Head(Top.subs), phase |-> "realize",
                        subs |-> <<>>, logs |-> "default", scm |-> Top.logs])
    /\ UNCHANGED <<cfg, remote, remote0, _state, id, existing_resource,
                   resource_params, _parent, logs, appended, requests, outcome,
                   output, faults, polls, wait_fetches, waited, achieved, run>>
    /\ UNCHANGED <<pollvars, diffvars>>

\* The answers the manager may give to the fetches of one _wait_till_create.
WaitStreams ==
    {Stream(RespState(S_success), 0, RespState(S_success)),
     Stream(RespState(S_in_progress), 1, RespCode(HTTP_OK)),
     Stream(RespState(S_failed), 0, RespState(S_failed)),
     Stream(RespState(S_pending), 0, RespState(S_pending)),
     Stream(RespRaise, 0, RespRaise)}

\* (mutant) the body of an update is sent without a _revision
UpdateBody_stripped(existing, params) ==
    Dict([k \in (DOMAIN params.v) \ {"_revision"} |-> params.v[k]])

\* self.resource_params['_revision'] = self.existing_resource['_revision']:
\* the body of the PATCH of an update.
UpdateBody(existing, params) ==
    Dict(("_revision" :> existing.v["_revision"]) @@ params.v)

(***************************************************************************)
(* _achieve_present_state, and what follows it in _achieve_state.          *)
(***************************************************************************)
AchievePresentState ==
    /\ AtSelf /\ _state[Top.node] = "present"
    /\ LET f == Top
           n == f.node
           is_resource_updated ==
               check_for_update(existing_resource[n], resource_params[n])
       IN  \/ \* check mode, nothing to update: reported as a change
              /\ ~is_resource_updated /\ check_mode
              /\ Log(f, Rec(n, TRUE, "check_create"), Clock)
              /\ Continue(f)
              /\ UNCHANGED <<remote, resource_params, requests, faults, wait_fetches, waited>>
           \/ \* the resource exists as specified
              /\ ~is_resource_updated /\ ~check_mode
              /\ Truthy(existing_resource[n])
              /\ Log(f, Rec(n, FALSE, "exists"), Clock)
              /\ Continue(f)
              /\ UNCHANGED <<remote, resource_params, requests, faults, wait_fetches, waited>>
           \/ \* create: PATCH, then the wait if the class asks for it
              /\ ~is_resource_updated /\ ~check_mode
              /\ ~Truthy(existing_resource[n])
              /\ \E res \in Results :
                 \E stream \in IF cfg.wait[n] /\ res = "ok" THEN WaitStreams
                               ELSE {Stream(RespRaise, 0, RespRaise)} :
                   LET w == _wait_till_create(stream)
                       waits == res = "ok" /\ cfg.wait[n]
                   IN  /\ MayAnswer(res)
                       /\ faults' = Count(res)
                       /\ requests' = Append(requests, Req("PATCH", n, res, Clock))
                       /\ remote' = IF res = "ok"
                                    THEN [remote EXCEPT ![n] = resource_params[n]]
                                    ELSE remote
                       /\ wait_fetches' = IF waits THEN w.fetches ELSE wait_fetches
                       /\ waited' = IF waits
                                    THEN [waited EXCEPT ![n] = IF w.ok THEN "ok" ELSE "failed"]
                                    ELSE waited
                       /\ IF res = "ok" /\ ~WaitFailed(n, w)
                          THEN Log(f, Rec(n, TRUE, "created"), Clock + 1) /\ Continue(f)
                          ELSE FailJson(f) /\ UNCHANGED <<logs, appended>>
              /\ UNCHANGED resource_params
           \/ \* check mode, an update: the name appended to is not defined
              /\ is_resource_updated /\ check_mode
              /\ Crash
              /\ UNCHANGED <<remote, resource_params, requests, faults,
                             wait_fetches, waited, logs, appended>>
           \/ \* update: PATCH with the revision of the existing resource
              /\ is_resource_updated /\ ~check_mode
              /\ IF "_revision" \notin DOMAIN existing_resource[n].v
                 THEN \* KeyError, outside the try
                      /\ Crash
                      /\ UNCHANGED <<remote, resource_params, requests, faults,
                                     logs, appended>>
                 ELSE \E res \in Results :
                        LET data == UpdateBody(existing_resource[n], resource_params[n])
                        IN  /\ MayAnswer(res)
                            /\ faults' = Count(res)
                            /\ resource_params' = [resource_params EXCEPT ![n] = data]
                            /\ requests' = Append(requests, Req("PATCH", n, res, Clock))
                            /\ remote' = IF res = "ok" THEN [remote EXCEPT ![n] = data]
                                         ELSE remote
                            /\ IF res = "ok"
                               THEN Log(f, Rec(n, TRUE, "updated"), Clock + 1) /\ Continue(f)
                               ELSE FailJson(f) /\ UNCHANGED <<logs, appended>>
              /\ UNCHANGED <<wait_fetches, waited>>
    /\ achieved' = achieved \cup {Top.node}
    /\ UNCHANGED <<cfg, remote0, _state, id, existing_resource, _parent, polls, run>>
    /\ UNCHANGED <<pollvars, diffvars>>

(***************************************************************************)
(* _achieve_absent_state up to the DELETE request.                         *)
(***************************************************************************)
AchieveAbsentState ==
    /\ AtSelf /\ _state[Top.node] # "present"
    /\ LET f == Top
           n == f.node
       IN  \/ /\ existing_resource[n].t = "none"
              /\ Log(f, Rec(n, FALSE, "none_exists"), Clock)
              /\ Continue(f)
              /\ UNCHANGED <<remote, requests, faults, polls>>
           \/ /\ existing_resource[n].t # "none" /\ check_mode
              /\ Log(f, Rec(n, TRUE, "check_delete"), Clock)
              /\ Continue(f)
              /\ UNCHANGED <<remote, requests, faults, polls>>
           \/ /\ existing_resource[n].t # "none" /\ ~check_mode
              /\ \E res \in Results :
                   /\ MayAnswer(res)
                   /\ faults' = Count(res)
                   /\ requests' = Append(requests, Req("DELETE", n, res, Clock))
                   /\ IF res = "ok"
                      THEN /\ remote' = [remote EXCEPT ![n] = None]
                           /\ stack' = SetTop([f EXCEPT !.phase = "wait_delete"])
                           /\ polls' = 0
                           /\ UNCHANGED <<outcome, output>>
                      ELSE /\ FailJson(f)
                           /\ UNCHANGED <<remote, polls>>
              /\ UNCHANGED <<logs, appended>>
    /\ achieved' = achieved \cup {Top.node}
    /\ UNCHANGED <<cfg, remote0, _state, id, existing_resource, resource_params,
                   _parent, wait_fetches, waited, run>>
    /\ UNCHANGED <<pollvars, diffvars>>

(***************************************************************************)
(* _wait_till_delete: one fetch of its loop, and what follows the loop in  *)
(* _achieve_absent_state.  The manager removes a resource in its own time, *)
(* so a fetch may still find it.                                           *)
(***************************************************************************)
\* (mutant) the wait returns after any fetch
WaitReturns_always(result) == TRUE

\* The loop of _wait_till_delete: a fetch that returns is followed by a sleep
\* and the next fetch, whatever their number; one that raises ends the wait.
WaitReturns(result) == result # "ok"

WaitTillDelete ==
    /\ Running /\ Top.phase = "wait_delete"
    /\ LET f == Top
           n == f.node
       IN  \/ \* still there: sleep and fetch again; or the fetch raises
              \* something else than DuplicateRequestError: return
              \E res \in {"ok", "notfound", "error"} :
                   /\ res = "ok" => polls < MaxDeletePolls
                   /\ res = "error" => faults < MaxFaults
                   /\ faults' = IF res = "error" THEN faults + 1 ELSE faults
                   /\ polls' = IF res = "ok" THEN polls + 1 ELSE polls
                   /\ requests' = Append(requests, Req("GET", n, res, Clock))
                   /\ IF WaitReturns(res)
                      THEN Log(f, Rec(n, TRUE, "deleted"), Clock + 1) /\ Continue(f)
                      ELSE UNCHANGED <<stack, logs, appended, outcome, output>>
           \/ \* DuplicateRequestError: fail_json(msg='Duplicate request')
              /\ faults < MaxFaults
              /\ faults' = faults + 1
              /\ requests' = Append(requests, Req("GET", n, "duplicate", Clock))
              /\ outcome' = "fail_json"
              /\ output' = [has_logs |-> FALSE, logs |-> <<>>]
              /\ stack' = <<>>
              /\ UNCHANGED <<logs, appended, polls>>
    /\ UNCHANGED <<cfg, remote, remote0, _state, id, existing_resource,
                   resource_params, _parent, wait_fetches, waited, achieved, run>>
    /\ UNCHANGED <<pollvars, diffvars>>

(***************************************************************************)
(* The end of _achieve_state: the base resource ends the process with      *)
(* exit_json, a sub-resource returns to the loop of its parent.            *)
(***************************************************************************)
Return ==
    /\ Running /\ Top.phase = "post" /\ Top.subs = <<>>
    /\ \/ /\ Top.node \in BASE_RESOURCES
          /\ outcome' = "exit_json"
          /\ output' = [has_logs |-> TRUE, logs |-> logs[Top.logs]]
          /\ stack' = <<>>
       \/ /\ Top.node \notin BASE_RESOURCES
          /\ stack' = Pop
          /\ UNCHANGED <<outcome, output>>
    /\ UNCHANGED <<cfg, remote, remote0, _state, id, existing_resource,
                   resource_params, _parent, logs, appended, requests, faults,
                   polls, wait_fetches, waited, achieved, run>>
    /\ UNCHANGED <<pollvars, diffvars>>

(***************************************************************************)
(* The module is run again, in a new process, against the same manager.    *)
(***************************************************************************)
NextRun ==
    /\ outcome = "exit_json" /\ run = 1
    /\ run' = 2
    /\ remote0' = remote
    /\ _state' = [n \in Nodes |-> "unset"]
    /\ id' = [n \in Nodes |-> "unset"]
    /\ existing_resource' = [n \in Nodes |-> None]
    /\ resource_params' = [n \in Nodes |-> EmptyDict]
    /\ _parent' = "unset"
    /\ stack' = <<[node |-> "r", phase |-> "realize", subs |-> <<>>,
                   logs |-> IF cfg.explicit_logs THEN "caller" ELSE "default",
                   scm |-> "true"]>>
    /\ logs' = [caller |-> <<>>, default |-> <<>>]
    /\ appended' = <<>>
    /\ requests' = <<>>
    /\ outcome' = "running"
    /\ output' = [has_logs |-> FALSE, logs |-> <<>>]
    /\ polls' = 0
    /\ wait_fetches' = 0
    /\ waited' = [n \in Nodes |-> "no"]
    /\ achieved' = {}
    /\ UNCHANGED <<cfg, remote, faults>>
    /\ UNCHANGED <<pollvars, diffvars>>

Next ==
    \/ Realize
    \/ SubresourceRealize
    \/ AchievePresentState
    \/ AchieveAbsentState
    \/ WaitTillDelete
    \/ Return
    \/ NextRun

Spec == Init /\ [][Next]_vars

\* The runs of a base resource with one sub-resource, whose class overrides
\* create_or_update_subresource_first, delete_subresource_first and
\* do_wait_till_create or not.
InitSmall ==
    /\ cfg \in ConfigsSmall
    /\ remote \in RemotesOf(cfg)
    /\ remote0 = remote
    /\ faults = 0
    /\ run = 1
    /\ Fresh
    /\ wait_stream = Stream(RespRaise, 0, RespRaise)
    /\ count = 0
    /\ NoCall

SpecSmall == InitSmall /\ [][Next]_vars

\* The same runs as sequential code: in _wait_till_delete a sleep ends, and a
\* fetch returns or raises.
SpecLive == SpecSmall /\ WF_vars(WaitTillDelete)

(***************************************************************************)
(* The same program when the caller of the base resource's realize passes  *)
(* a list of its own for successful_resource_exec_logs.                    *)
(***************************************************************************)
InitExplicit ==
    /\ cfg \in {[c EXCEPT !.explicit_logs = TRUE] : c \in ConfigsSmall}
    /\ remote \in RemotesOf(cfg)
    /\ remote0 = remote
    /\ faults = 0
    /\ run = 1
    /\ Fresh
    /\ wait_stream = Stream(RespRaise, 0, RespRaise)
    /\ count = 0
    /\ NoCall

SpecExplicit == InitExplicit /\ [][Next]_vars

(***************************************************************************)
(* check_for_update and _fill_missing_resource_params called on their own. *)
(* The params: scalars "x" and "y", the list "tags", and the dict "opt"    *)
(* with "x", "y" and a dict "adv" of its own.  A value the manager holds   *)
(* may be null, and so is a sub-option the user leaves out; the params     *)
(* that _extract_resource_params returns hold no None at the top.          *)
(***************************************************************************)
List(s) == [t |-> "l", l |-> s]

\* Two values are the same value, dicts key by key.
RECURSIVE Same(_, _)
Same(x, y) ==
    /\ x.t = y.t
    /\ IF x.t = "d"
       THEN /\ DOMAIN x.v = DOMAIN y.v
            /\ \A k \in DOMAIN x.v : Same(x.v[k], y.v[k])
       ELSE x = y

Absent == [t |-> "absent"]

\* The dicts that hold, for each key of choices, one of its choices or nothing.
DictsOver(choices) ==
    {Dict([k \in {j \in DOMAIN f : f[j] # Absent} |-> f[k]]) :
        f \in {g \in [DOMAIN choices -> UNION {choices[k] : k \in DOMAIN choices}] :
                  \A k \in DOMAIN choices : g[k] \in choices[k]}}

ExistingOpts ==
    {Absent, None, Dict("x" :> Scalar(1)), Dict("x" :> Scalar(2)),
     Dict("y" :> Scalar(2)), Dict(("x" :> Scalar(1)) @@ ("y" :> Scalar(2))),
     Dict(("adv" :> Dict("x" :> Scalar(1))) @@ ("y" :> Scalar(2)))}
    \cup DictsOver(<<>>)

DesiredOpts ==
    {Absent, Dict("x" :> Scalar(1)), Dict("x" :> Scalar(99)),
     Dict(("x" :> Scalar(1)) @@ ("y" :> Scalar(2))),
     Dict("adv" :> None), Dict("adv" :> Dict("x" :> Scalar(1)))}
    \cup DictsOver(<<>>)

Tags == {Absent, List(<<1, 2>>), List(<<2, 1>>)}

ExistingParams ==
    {None} \cup
    DictsOver([x |-> {Absent, Scalar(1)}, y |-> {Absent, Scalar(2)},
               tags |-> Tags, opt |-> ExistingOpts])

DesiredParams ==
    DictsOver([x |-> {Absent, Scalar(1), Scalar(99)}, y |-> {Absent, Scalar(2)},
               tags |-> Tags, opt |-> DesiredOpts])

InitParams ==
    /\ cfg = DefaultConfig(NoSubs)
    /\ remote = [n \in Nodes |-> None]
    /\ remote0 = remote
    /\ _state = [n \in Nodes |-> "unset"]
    /\ id = [n \in Nodes |-> "unset"]
    /\ existing_resource = [n \in Nodes |-> None]
    /\ resource_params = [n \in Nodes |-> EmptyDict]
    /\ _parent = "unset"
    /\ stack = <<>>
    /\ logs = [caller |-> <<>>, default |-> <<>>]
    /\ appended = <<>>
    /\ requests = <<>>
    /\ outcome = "running"
    /\ output = [has_logs |-> FALSE, logs |-> <<>>]
    /\ faults = 0
    /\ polls = 0
    /\ wait_fetches = 0
    /\ waited = [n \in Nodes |-> "no"]
    /\ achieved = {}
    /\ run = 1
    /\ wait_stream = Stream(RespRaise, 0, RespRaise)
    /\ count = 0
    /\ given \in [existing_params : ExistingParams, resource_params : DesiredParams,
                   order : KeyOrders]
    /\ filled = [called |-> FALSE, raised |-> FALSE, v |-> given.resource_params]
    /\ returned = "not called"

runvars == <<cfg, remote, remote0, _state, id, existing_resource, resource_params,
             _parent, stack, logs, appended, requests, outcome, output,
             faults, polls, wait_fetches, waited, achieved, run>>

\* self._fill_missing_resource_params(existing_params, resource_params)
FillMissingResourceParams ==
    /\ ~filled.called /\ returned = "not called"
    /\ LET fill == FillOutcome(given.existing_params, given.resource_params, given.order)
       IN  filled' = [called |-> TRUE, raised |-> fill.raised, v |-> fill.v]
    /\ UNCHANGED <<given, returned, runvars, pollvars>>

\* self.check_for_update(existing_params, resource_params), on the params as
\* they are: as given, or after the fill.
CheckForUpdate ==
    /\ returned = "not called"
    /\ returned' = IF check_for_update(given.existing_params, filled.v)
                   THEN "True" ELSE "False"
    /\ UNCHANGED <<given, filled, runvars, pollvars>>

NextParams == FillMissingResourceParams \/ CheckForUpdate

SpecParams == InitParams /\ [][NextParams]_vars

(***************************************************************************)
(* _wait_till_create followed fetch by fetch.  The resource "r" has been   *)
(* PATCHed and its class waits for the realization; the manager answers    *)
(* the fetches with one of the streams below.                              *)
(***************************************************************************)
S_pend == <<"p","e","n","d">>

PollerResponses ==
    {RespState(S_pending), RespState(S_in_progress), RespState(S_success),
     RespState(S_partial_success), RespState(S_failed), RespState(S_pend),
     RespState(<<>>), RespCode(HTTP_OK), RespCode(404), RespRaise}

\* How many fetches the first answer of a stream lasts.
PollerLeads == {0, 1, MAX_WAIT_COUNT - 1, MAX_WAIT_COUNT, MAX_WAIT_COUNT + 1}

PollerStreams ==
    {Stream(lead, n, final) :
        lead \in PollerResponses, n \in PollerLeads, final \in PollerResponses}

InitPoller ==
    /\ cfg = [DefaultConfig(NoSubs) EXCEPT !.wait["r"] = TRUE]
    /\ remote = [[n \in Nodes |-> None] EXCEPT !["r"] = Desired]
    /\ remote0 = [n \in Nodes |-> None]
    /\ _state = [[n \in Nodes |-> "unset"] EXCEPT !["r"] = "present"]
    /\ id = [[n \in Nodes |-> "unset"] EXCEPT !["r"] = "r"]
    /\ existing_resource = [n \in Nodes |-> None]
    /\ resource_params = [[n \in Nodes |-> EmptyDict] EXCEPT !["r"] = Desired]
    /\ _parent = "r"
    /\ stack = <<[node |-> "r", phase |-> "wait_create", subs |-> <<>>,
                  logs |-> "default", scm |-> "true"]>>
    /\ logs = [caller |-> <<>>, default |-> <<>>]
    /\ appended = <<>>
    /\ requests = <<Req("GET", "r", "notfound", 1), Req("PATCH", "r", "ok", 2)>>
    /\ outcome = "running"
    /\ output = [has_logs |-> FALSE, logs |-> <<>>]
    /\ faults = 0
    /\ polls = 0
    /\ wait_fetches = 0
    /\ waited = [n \in Nodes |-> "no"]
    /\ achieved = {"r"}
    /\ run = 1
    /\ wait_stream \in PollerStreams
    /\ count = 0
    /\ NoCall

\* (mutant) the count is compared after the next fetch only
GivesUp_late(c) == c > MAX_WAIT_COUNT

\* if count == 90: return False
GivesUp(c) == c = MAX_WAIT_COUNT

\* One turn of the loop: a fetch, and what is done with its response.
WaitTillCreate ==
    /\ Running /\ Top.phase = "wait_create"
    /\ LET n == Top.node
           resp == NthResp(wait_stream, wait_fetches + 1)
           what == Classify(resp)
           counted == IF what = "wait" THEN count + 1 ELSE count
           returns == what # "wait" \/ GivesUp(counted)
       IN  /\ wait_fetches' = wait_fetches + 1
           /\ count' = counted
           /\ IF returns
              THEN /\ waited' = [waited EXCEPT
                                   ![n] = IF what = "success" THEN "ok" ELSE "failed"]
                   /\ stack' = SetTop([Top EXCEPT !.phase = "waited"])
              ELSE UNCHANGED <<waited, stack>>
    /\ UNCHANGED <<cfg, remote, remote0, _state, id, existing_resource,
                   resource_params, _parent, logs, appended, requests, outcome,
                   output, faults, polls, achieved, run, wait_stream>>
    /\ UNCHANGED diffvars

NextPoller == WaitTillCreate

SpecPoller == InitPoller /\ [][NextPoller]_vars

\* The loop is sequential code: a fetch returns or raises, a sleep ends, and
\* the next turn of the loop is taken.
SpecPollerLive == SpecPoller /\ WF_vars(WaitTillCreate)

(***************************************************************************)
(* Notions the properties are stated with.                                 *)
(***************************************************************************)
\* The places in the history of everything that concerns a resource, and of
\* what it does for its own state: its PATCH and DELETE requests and its records.
EventsOf(n) ==
    {requests[i].at : i \in {j \in DOMAIN requests : requests[j].node = n}} \cup
    {appended[i].at : i \in {j \in DOMAIN appended : appended[j].node = n}}

\* The events of a resource and of everything nested under it.
SubtreeEventsOf(n) ==
    UNION {EventsOf(m) : m \in {n} \cup Descendants(cfg.sub, n)}

OwnStepsOf(n) ==
    {requests[i].at : i \in {j \in DOMAIN requests :
                               /\ requests[j].node = n
                               /\ requests[j].method \in {"PATCH", "DELETE"}}} \cup
    {appended[i].at : i \in {j \in DOMAIN appended : appended[j].node = n}}

RecordsOf(n) == {appended[i] : i \in {j \in DOMAIN appended : appended[j].node = n}}

\* The records appended so far, as the lists hold them.
Collected == [i \in DOMAIN appended |-> Rec(appended[i].node, appended[i].changed,
                                            appended[i].what)]

\* The resources the run reaches: specified, under specified resources only.
RECURSIVE Reached(_)
Reached(n) ==
    IF ~cfg.specified[n] THEN {}
    ELSE {n} \cup UNION {Reached(cfg.sub[n][i]) : i \in DOMAIN cfg.sub[n]}

(***************************************************************************)
(* C1.  Absence cascade: a sub-resource whose parent's _state is "absent"  *)
(* gets the _state "absent" unless its class overrides                     *)
(* achieve_subresource_state_if_del_parent, and then it gets the state the *)
(* user gave it -- whatever was realized before it.                        *)
(* Violated: the state is read from _parent_info["_parent"] before the     *)
(* object has put itself there, and that is the object realized last, not  *)
(* the parent.                                                             *)
(***************************************************************************)
C1_AbsenceCascade ==
    \A p \in Nodes : \A i \in DOMAIN cfg.sub[p] :
        LET c == cfg.sub[p][i] IN
        (_state[p] = "absent" /\ _state[c] # "unset")
            => _state[c] = IF cfg.if_del_parent[c] THEN cfg.state[c] ELSE "absent"

(***************************************************************************)
(* C2.  Sibling ordering: under a parent whose _state is "present" all the *)
(* requests and records of a sub-resource of higher priority, and of all   *)
(* that is nested under it, come before those of a sub-resource of lower   *)
(* priority; under an "absent" parent those of lower priority come first.  *)
(***************************************************************************)
C2_SiblingOrder ==
    \A p \in Nodes : \A i, j \in DOMAIN cfg.sub[p] :
        LET c1 == cfg.sub[p][i]
            c2 == cfg.sub[p][j]
        IN  (\/ _state[p] = "present" /\ cfg.prio[c1] > cfg.prio[c2]
             \/ _state[p] = "absent" /\ cfg.prio[c1] < cfg.prio[c2])
            => \A e1 \in SubtreeEventsOf(c1), e2 \in SubtreeEventsOf(c2) : e1 < e2

\* Priorities a:10, b:5, c:1 under an absent parent: c, b, a and then the parent.
C2_Witness ==
    /\ cfg.sub = TreeWide
    /\ cfg.prio["a"] = 10 /\ cfg.prio["b"] = 5 /\ cfg.prio["c"] = 1
    /\ _state["r"] = "absent"
    /\ outcome = "exit_json"
    /\ [i \in DOMAIN appended |-> appended[i].node] = <<"c", "b", "a", "r">>

(***************************************************************************)
(* C3.  Idempotence: when every resource is to be present, not in check    *)
(* mode, and no request fails, the second of two runs against a manager    *)
(* that keeps what was PATCHed reports changed = False for every resource  *)
(* it reaches and sends no PATCH.                                          *)
(***************************************************************************)
C3_Idempotent ==
    (/\ run = 2 /\ outcome = "exit_json" /\ faults = 0
     /\ ~cfg.check_mode
     /\ \A n \in Nodes : cfg.state[n] # "absent")
    => /\ \A i \in DOMAIN appended : ~appended[i].changed
       /\ \A i \in DOMAIN requests : requests[i].method # "PATCH"
       /\ \A n \in Reached("r") : RecordsOf(n) # {}

\* The second run after a first run that created both resources.
C3_Witness ==
    /\ run = 2 /\ outcome = "exit_json" /\ faults = 0 /\ ~cfg.check_mode
    /\ cfg.sub = TreeSmall /\ cfg.state["r"] = "present" /\ cfg.state["a"] = "present"
    /\ ValEq(remote["r"], Desired) /\ ValEq(remote["a"], Desired)
    /\ Collected = <<Rec("r", FALSE, "exists"), Rec("a", FALSE, "exists")>>

(***************************************************************************)
(* C4.  Dry-run purity: in check mode no PATCH and no DELETE is ever sent  *)
(* and the manager's store stays what it was when the run began.           *)
(***************************************************************************)
C4_DryRunPure ==
    cfg.check_mode =>
        /\ \A i \in DOMAIN requests : requests[i].method = "GET"
        /\ remote = remote0

\* A check-mode run that ended having reported a deletion and a creation.
C4_Witness ==
    /\ cfg.check_mode /\ outcome = "exit_json"
    /\ \E i, j \in DOMAIN appended :
          appended[i].what = "check_delete" /\ appended[j].what = "check_create"

(***************************************************************************)
(* C5.  In check mode, a present resource that exists with other params    *)
(* (check_for_update is true) gets a record of the would-be update, with   *)
(* changed = True, and the run goes on.                                    *)
(* Violated: that branch appends to successfully_updated_resources, a name *)
(* that is not defined there, and the NameError ends the process.          *)
(***************************************************************************)
C5_DryRunUpdateLogged ==
    \A n \in achieved :
        (/\ cfg.check_mode /\ _state[n] = "present"
         /\ check_for_update(existing_resource[n], resource_params[n]))
        => /\ outcome # "exception"
           /\ \E r \in RecordsOf(n) : r.changed

(***************************************************************************)
(* C6.  A present resource that exists as specified (check_for_update is   *)
(* false) is not PATCHed and gets a record with changed = False, in check  *)
(* mode as in normal mode.                                                 *)
(* Violated in check mode: the record says changed = True.                 *)
(***************************************************************************)
C6_ExistsNoOp ==
    \A n \in achieved :
        (/\ _state[n] = "present" /\ Truthy(existing_resource[n])
         /\ ~check_for_update(existing_resource[n], resource_params[n]))
        => /\ \A i \in DOMAIN requests :
                 ~(requests[i].node = n /\ requests[i].method = "PATCH")
           /\ RecordsOf(n) # {}
           /\ \A r \in RecordsOf(n) : ~r.changed /\ r.what = "exists"

(***************************************************************************)
(* C7.  Parent before or after its sub-resources, with the base class's    *)
(* flags (create_or_update_subresource_first False, delete_subresource_    *)
(* first True): a present resource's own PATCH and record come before      *)
(* every PATCH, DELETE and record of its descendants, an absent resource's *)
(* own DELETE and record come after them.  And seg1 with a port p1, both   *)
(* to be present and neither on the manager, is reported as                *)
(* [seg1 created, p1 created], both changed.                               *)
(***************************************************************************)
C7_ParentChildOrder ==
    /\ \A n \in Nodes : \A d \in Descendants(cfg.sub, n) :
         (~cfg.create_first[n] /\ cfg.delete_first[n]) =>
            /\ _state[n] = "present" =>
                 \A e \in OwnStepsOf(n), x \in OwnStepsOf(d) : e < x
            /\ _state[n] = "absent" =>
                 \A e \in OwnStepsOf(n), x \in OwnStepsOf(d) : x < e
    /\ (/\ cfg = DefaultConfig(TreeSmall)
        /\ run = 1 /\ remote0 = [n \in Nodes |-> None]
        /\ faults = 0 /\ outcome # "running")
       => /\ outcome = "exit_json"
          /\ output.has_logs
          /\ output.logs = <<Rec("r", TRUE, "created"), Rec("a", TRUE, "created")>>

\* The run of the example has ended: the base resource was created, then its
\* sub-resource.
C7_Witness ==
    /\ cfg = DefaultConfig(TreeSmall)
    /\ run = 1 /\ remote0 = [n \in Nodes |-> None]
    /\ faults = 0 /\ outcome = "exit_json"
    /\ Collected = <<Rec("r", TRUE, "created"), Rec("a", TRUE, "created")>>

(***************************************************************************)
(* C8.  Fail-fast: a PATCH or a DELETE that fails is the last request of   *)
(* the run, the process ends with fail_json, no record is appended after   *)
(* it, and fail_json is given the records collected until then.            *)
(***************************************************************************)
C8_FailFast ==
    \A i \in DOMAIN requests :
        (requests[i].method \in {"PATCH", "DELETE"} /\ requests[i].result # "ok")
        => /\ i = Len(requests)
           /\ outcome = "fail_json"
           /\ \A j \in DOMAIN appended : appended[j].at < requests[i].at
           /\ output.has_logs
           /\ output.logs = Collected

\* The PATCH of a sub-resource fails after its parent was created.
C8_Witness ==
    /\ outcome = "fail_json"
    /\ requests # <<>>
    /\ LET last == requests[Len(requests)] IN
          last.method = "PATCH" /\ last.result = "error" /\ last.node = "a"
    /\ output.logs = <<Rec("r", TRUE, "created")>>

(***************************************************************************)
(* C9.  DuplicateRequestError, whatever the request it is signalled for,   *)
(* ends the run at once with fail_json, which is given the records         *)
(* collected until then.                                                   *)
(* Violated: signalled for the fetch of realize it is caught like any      *)
(* exception and the resource is taken not to exist; signalled in          *)
(* _wait_till_delete, fail_json is given the message only.                 *)
(***************************************************************************)
C9_DuplicateRequestFatal ==
    \A i \in DOMAIN requests :
        requests[i].result = "duplicate"
        => /\ i = Len(requests)
           /\ outcome = "fail_json"
           /\ output.has_logs
           /\ output.logs = Collected

(***************************************************************************)
(* C10.  A failed wait is fatal: when _wait_till_create returns False for  *)
(* a resource that was just created, the process ends with fail_json, the  *)
(* resource gets no record, and nothing is requested or appended after its *)
(* PATCH.                                                                  *)
(***************************************************************************)
C10_PollFailureFatal ==
    \A n \in Nodes :
        waited[n] = "failed"
        => /\ outcome = "fail_json"
           /\ RecordsOf(n) = {}
           /\ requests # <<>>
           /\ requests[Len(requests)].node = n
           /\ requests[Len(requests)].method = "PATCH"
           /\ \A j \in DOMAIN appended : appended[j].at < requests[Len(requests)].at

\* The wait for a sub-resource gave up after MAX_WAIT_COUNT fetches, its
\* parent having been created.
C10_Witness ==
    /\ waited["a"] = "failed" /\ waited["r"] = "ok"
    /\ wait_fetches = MAX_WAIT_COUNT
    /\ Collected = <<Rec("r", TRUE, "created")>>

(***************************************************************************)
(* C11.  Poller bound: when every fetch is answered with a status          *)
(* "pending" or "in_progress", _wait_till_create returns False with its    *)
(* 90th fetch: not with an earlier one, and no 91st fetch is made.         *)
(***************************************************************************)
AlwaysInProgress(stream) ==
    {stream.lead, stream.final} \subseteq {RespState(S_pending), RespState(S_in_progress)}

C11_PollerBound ==
    AlwaysInProgress(wait_stream) =>
        /\ wait_fetches <= MAX_WAIT_COUNT
        /\ waited["r"] # "ok"
        /\ waited["r"] = "failed" <=> wait_fetches = MAX_WAIT_COUNT

\* 89 fetches answered "pending", the 90th "in_progress": given up.
C11_Witness ==
    /\ wait_stream = Stream(RespState(S_pending), MAX_WAIT_COUNT - 1,
                            RespState(S_in_progress))
    /\ waited["r"] = "failed"
    /\ wait_fetches = MAX_WAIT_COUNT /\ count = MAX_WAIT_COUNT

(***************************************************************************)
(* C12.  One flat log: every record of a run, whichever resource appends   *)
(* it, goes to one list in the order of the appends; that list is the one  *)
(* given to exit_json, and it is the caller's list when the caller of      *)
(* realize passes one.                                                     *)
(* Violated when the caller passes a list: achieve_subresource_state calls *)
(* sub_resource.realize(successful_resource_exec_logs), which binds the    *)
(* list to supports_check_mode, so the sub-resources append to the default *)
(* list of realize and exit_json is given the base resource's records only.*)
(***************************************************************************)
C12_OneFlatLog ==
    /\ logs[IF cfg.explicit_logs THEN "caller" ELSE "default"] = Collected
    /\ outcome = "exit_json" => output.has_logs /\ output.logs = Collected

(***************************************************************************)
(* C13.  A fresh log for every realize that is not passed one: when such   *)
(* an invocation starts, its log holds no record of an invocation that has *)
(* returned before.                                                        *)
(* Violated: the log of an invocation that is not passed one is the        *)
(* default value of the parameter, one list for the life of the process,   *)
(* and every sub-resource is realized without being passed a log.          *)
(***************************************************************************)
OnStack == {stack[i].node : i \in DOMAIN stack}

C13_FreshLog ==
    (/\ Running /\ Top.phase = "realize" /\ Top.logs = "default")
    => \A i \in DOMAIN logs.default : logs.default[i].node \in OnStack

(***************************************************************************)
(* C14.  A resource whose id is not given is skipped with all that is      *)
(* nested under it: it gets no record and no PATCH or DELETE, and for the  *)
(* resources under it nothing is requested, nothing recorded and no object *)
(* is realized, whatever states are given.                                 *)
(***************************************************************************)
C14_UnresolvedSkip ==
    \A n \in Nodes :
        id[n] = INCORRECT_ARGUMENT_NAME_VALUE
        => /\ OwnStepsOf(n) = {}
           /\ n \notin achieved
           /\ \A d \in Descendants(cfg.sub, n) :
                 EventsOf(d) = {} /\ id[d] = "unset" /\ d \notin achieved

\* A run has ended in which "a" was given a state but no id, while "g" under
\* it was given an id and a state.
C14_Witness ==
    /\ cfg.sub = TreeDeep /\ outcome = "exit_json"
    /\ id["a"] = INCORRECT_ARGUMENT_NAME_VALUE /\ cfg.state["a"] = "absent"
    /\ cfg.specified["g"] /\ cfg.state["g"] = "present"
    /\ id["b"] = "b" /\ RecordsOf("b") # {}

(***************************************************************************)
(* C19.  resource_params of a resource object never holds the key 'id' nor *)
(* the key 'state', also after the back-fill from an existing resource     *)
(* that carries its 'id'.                                                  *)
(* Violated: _extract_resource_params leaves the two out, but the back-    *)
(* fill copies every key of the existing resource that resource_params     *)
(* lacks, 'id' with the others.                                            *)
(***************************************************************************)
C19_NoIdNoState ==
    \A n \in Nodes : {"id", "state"} \cap DOMAIN resource_params[n].v = {}

(***************************************************************************)
(* C15.  The back-fill is non-destructive: after the fill of               *)
(* resource_params from a non-empty existing_params, every key that        *)
(* resource_params had keeps its value when that is not a dict, every key  *)
(* of existing_params that it lacked is there with the existing value, and *)
(* where both hold a dict under a key the same is true of the two dicts    *)
(* (existing {x:1, y:2} and params {x:99} give {x:99, y:2}).               *)
(* Violated: where existing_params holds a dict and resource_params holds  *)
(* None for a sub-option the user left out, the nested call raises         *)
(* TypeError and the keys that come after it are not filled.               *)
(***************************************************************************)
RECURSIVE NonDestructive(_, _, _)
NonDestructive(existing, before, after) ==
    IF ~Truthy(existing) THEN Same(after, before)
    ELSE /\ after.t = "d"
         /\ \A k \in DOMAIN before.v :
               /\ k \in DOMAIN after.v
               /\ before.v[k].t # "d" => Same(after.v[k], before.v[k])
         /\ \A k \in (DOMAIN existing.v) \ (DOMAIN before.v) :
               k \in DOMAIN after.v /\ Same(after.v[k], existing.v[k])
         /\ \A k \in (DOMAIN existing.v) \cap (DOMAIN before.v) :
               (existing.v[k].t = "d" /\ before.v[k].t = "d" /\ k \in DOMAIN after.v)
               => NonDestructive(existing.v[k], before.v[k], after.v[k])

C15_BackFill ==
    filled.called =>
        NonDestructive(given.existing_params, given.resource_params, filled.v)

\* A fill that returns does what C15 says, and gives what
\* _fill_missing_resource_params says whatever the order of the keys.
FillReturns ==
    (filled.called /\ ~filled.raised) =>
        /\ NonDestructive(given.existing_params, given.resource_params, filled.v)
        /\ Same(filled.v, _fill_missing_resource_params(given.existing_params,
                                                        given.resource_params))

(***************************************************************************)
(* C16.  check_for_update detects missing keys: with a non-empty           *)
(* existing_params, when a key of resource_params is missing from          *)
(* existing_params, or a key of a dict in resource_params is missing from  *)
(* the dict that existing_params holds in the same place, check_for_update *)
(* returns True.                                                           *)
(* Violated: the nested call returns False at once when the dict of        *)
(* existing_params is empty, whatever resource_params holds there.         *)
(***************************************************************************)
RECURSIVE MissesKey(_, _)
MissesKey(existing, params) ==
    \E k \in DOMAIN params.v :
        \/ k \notin DOMAIN existing.v
        \/ /\ params.v[k].t = "d" /\ existing.v[k].t = "d"
           /\ MissesKey(existing.v[k], params.v[k])

C16_DetectsMissingKeys ==
    (/\ returned # "not called"
     /\ Truthy(given.existing_params)
     /\ MissesKey(given.existing_params, filled.v))
    => returned = "True"

(***************************************************************************)
(* C17.  check_for_update looks at the keys of resource_params only: it    *)
(* returns False when existing_params is None or empty, and what it        *)
(* returns for an existing resource does not change when existing_params   *)
(* gets more keys that resource_params does not have, at the top or in a   *)
(* dict within.                                                            *)
(* Violated: a key added to an empty dict within existing_params makes the *)
(* nested call look at the keys of resource_params, which it did not do    *)
(* while the dict was empty (see C16).                                     *)
(***************************************************************************)
RECURSIVE HasMoreKeys(_, _, _)
HasMoreKeys(more, existing, params) ==
    /\ more.t = "d" /\ existing.t = "d"
    /\ DOMAIN existing.v \subseteq DOMAIN more.v
    /\ ((DOMAIN more.v) \ (DOMAIN existing.v)) \cap (DOMAIN params.v) = {}
    /\ \A k \in DOMAIN existing.v :
          \/ Same(more.v[k], existing.v[k])
          \/ /\ k \in DOMAIN params.v /\ params.v[k].t = "d"
             /\ HasMoreKeys(more.v[k], existing.v[k], params.v[k])

C17_OnlyDesiredKeys ==
    returned # "not called" =>
        /\ ~Truthy(given.existing_params) => returned = "False"
        /\ Truthy(given.existing_params) =>
              \A more \in ExistingParams :
                  HasMoreKeys(more, given.existing_params, filled.v)
                  => (check_for_update(more, filled.v) <=> returned = "True")

(***************************************************************************)
(* C18.  Lists are compared in order: when resource_params and             *)
(* existing_params hold under a key two lists of the same elements in      *)
(* another order, check_for_update returns True; when they hold the same   *)
(* list, that key makes no difference: nothing else given,                 *)
(* check_for_update returns False.                                         *)
(***************************************************************************)
SameElements(s, t) ==
    /\ Len(s) = Len(t)
    /\ \A e \in {s[i] : i \in DOMAIN s} :
          Cardinality({i \in DOMAIN s : s[i] = e})
              = Cardinality({i \in DOMAIN t : t[i] = e})

C18_ListOrder ==
    returned # "not called" =>
        \A k \in (DOMAIN filled.v.v) \cap
                 (IF Truthy(given.existing_params)
                  THEN DOMAIN given.existing_params.v ELSE {}) :
            LET mine == filled.v.v[k]
                theirs == given.existing_params.v[k]
            IN  (mine.t = "l" /\ theirs.t = "l") =>
                    /\ (SameElements(mine.l, theirs.l) /\ mine.l # theirs.l)
                       => returned = "True"
                    /\ (mine.l = theirs.l /\ DOMAIN filled.v.v = {k})
                       => returned = "False"
                    /\ mine.l = theirs.l
                       => ~check_for_update(given.existing_params, Dict(k :> mine))

\* tags [2, 1] asked for, tags [1, 2] held, "x" the same on both sides: True.
C18_Witness ==
    /\ returned = "True" /\ ~filled.called
    /\ Same(given.existing_params,
            Dict(("x" :> Scalar(1)) @@ ("tags" :> List(<<1, 2>>))))
    /\ Same(given.resource_params,
            Dict(("x" :> Scalar(1)) @@ ("tags" :> List(<<2, 1>>))))

\* tags [1, 2] on both sides and nothing else asked for: False.
C18_WitnessSame ==
    /\ returned = "False" /\ ~filled.called
    /\ given.existing_params.t = "d"
    /\ Same(given.resource_params, Dict("tags" :> List(<<1, 2>>)))
    /\ "tags" \in DOMAIN given.existing_params.v
    /\ Same(given.existing_params.v["tags"], List(<<1, 2>>))

\* The loop followed fetch by fetch ends as _wait_till_create(stream) says.
PollerAgrees ==
    waited["r"] # "no" =>
        LET w == _wait_till_create(wait_stream) IN
        /\ w.fetches = wait_fetches
        /\ w.ok <=> waited["r"] = "ok"

(***************************************************************************)
(* C20.  A deletion is confirmed before it is recorded: the "deleted"      *)
(* record of a resource (changed true) follows a DELETE of the resource    *)
(* and, after that DELETE, a fetch of the resource that the manager        *)
(* answered with not-found; a fetch that failed in another way is no       *)
(* confirmation.                                                           *)
(* Violated: _wait_till_delete returns on any exception of the fetch but   *)
(* DuplicateRequestError, and the record is appended.                      *)
(***************************************************************************)
C20_DeleteConfirmed ==
    \A i \in DOMAIN appended :
        appended[i].what = "deleted" =>
            /\ appended[i].changed
            /\ \E d \in DOMAIN requests, g \in DOMAIN requests :
                  /\ requests[d].node = appended[i].node
                  /\ requests[d].method = "DELETE" /\ requests[d].result = "ok"
                  /\ requests[g].node = appended[i].node
                  /\ requests[g].method = "GET" /\ requests[g].result = "notfound"
                  /\ d < g /\ requests[g].at < appended[i].at
                  /\ \A h \in DOMAIN requests :
                        (h > g /\ requests[h].at < appended[i].at)
                        => requests[h].node # appended[i].node

\* The record always follows a DELETE and a fetch that did not find the
\* resource or failed.
DeleteThenFetch ==
    \A i \in DOMAIN appended :
        appended[i].what = "deleted" =>
            \E d \in DOMAIN requests, g \in DOMAIN requests :
                /\ requests[d].node = appended[i].node
                /\ requests[d].method = "DELETE" /\ requests[d].result = "ok"
                /\ requests[g].node = appended[i].node
                /\ requests[g].method = "GET"
                /\ requests[g].result \in {"notfound", "error"}
                /\ d < g /\ requests[g].at < appended[i].at

(***************************************************************************)
(* C21.  A fetch that fails is taken for absence.  When the fetch of       *)
(* realize does not find the resource or raises, for a resource the user   *)
(* specified, the run does not end there and existing_resource is None;    *)
(* when the resource then achieves its own state, a resource to be present *)
(* is created -- one PATCH, whose body has no _revision, and no record     *)
(* other than "created" (in check mode, where nothing is sent, the         *)
(* would-be creation is recorded) -- and a resource to be absent gets no   *)
(* DELETE and the record with changed false.                               *)
(***************************************************************************)
\* The fetch of realize is the first request made for a resource in a run.
FetchOf(n) ==
    LET mine == {j \in DOMAIN requests : requests[j].node = n}
    IN  IF mine = {} THEN 0
        ELSE CHOOSE j \in mine : \A k \in mine : j <= k

FetchFailed(n) ==
    /\ FetchOf(n) # 0
    /\ requests[FetchOf(n)].method = "GET"
    /\ requests[FetchOf(n)].result # "ok"
    /\ id[n] # INCORRECT_ARGUMENT_NAME_VALUE

RequestsOf(n, method) ==
    {j \in DOMAIN requests : requests[j].node = n /\ requests[j].method = method}

Whats(n) == {rec.what : rec \in RecordsOf(n)}

C21_FetchFailureIsAbsence ==
    \A n \in Nodes :
        FetchFailed(n) =>
            /\ existing_resource[n] = None
            /\ requests[FetchOf(n)].at = Clock - 1
               => outcome \notin {"fail_json", "exception"}
            /\ (n \in achieved /\ _state[n] = "present" /\ ~check_mode) =>
                  /\ Cardinality(RequestsOf(n, "PATCH")) = 1
                  /\ "_revision" \notin DOMAIN resource_params[n].v
                  /\ Whats(n) \subseteq {"created"}
                  /\ RequestsOf(n, "DELETE") = {}
            /\ (n \in achieved /\ _state[n] = "present" /\ check_mode) =>
                  /\ RequestsOf(n, "PATCH") = {}
                  /\ Whats(n) = {"check_create"}
            /\ (n \in achieved /\ _state[n] # "present") =>
                  /\ RequestsOf(n, "DELETE") = {}
                  /\ RequestsOf(n, "PATCH") = {}
                  /\ RecordsOf(n) # {}
                  /\ \A rec \in RecordsOf(n) :
                        rec.what = "none_exists" /\ ~rec.changed

\* The fetch of r raised although the manager holds r; r was then created
\* with a PATCH, and a fetch that did not find a sub-resource to be absent
\* was followed by its record.
C21_Witness ==
    /\ FetchFailed("r") /\ requests[FetchOf("r")].result = "error"
    /\ remote0["r"] # None
    /\ "created" \in Whats("r")
    /\ \E n \in Nodes :
          /\ FetchFailed(n) /\ requests[FetchOf(n)].result = "notfound"
          /\ "none_exists" \in Whats(n)

(***************************************************************************)
(* C22.  The parent whose state a sub-resource looks at is the resource it *)
(* is nested in: under a parent whose _state is "present" a sub-resource   *)
(* gets the state the user gave it, whatever the state of a sibling, or of *)
(* something under a sibling, realized before it.                          *)
(* Violated: _parent_info["_parent"] is the object realized last (see C1); *)
(* after a sibling that is "absent" the sub-resource is made "absent".     *)
(***************************************************************************)
C22_OwnParentConsulted ==
    \A p \in Nodes : \A i \in DOMAIN cfg.sub[p] :
        LET c == cfg.sub[p][i] IN
        (_state[p] = "present" /\ _state[c] # "unset")
            => _state[c] = cfg.state[c]

\* The first sub-resource realized under a resource does find its parent.
FirstChildFindsParent ==
    \A p \in Nodes :
        (cfg.sub[p] # <<>> /\ _state[p] = "present") =>
            LET c == Head(_get_sub_resources_class_of(p, "present")) IN
            _state[c] # "unset" => _state[c] = cfg.state[c]

(***************************************************************************)
(* C23.  The order of the steps of one resource.  For every resource the   *)
(* user specified that the run reaches: its _state is "present" or         *)
(* "absent"; there is one fetch of the resource, and it comes before the   *)
(* resource's PATCH or DELETE and its record; _achieve_present_state or    *)
(* _achieve_absent_state runs once (one request of its own and one record  *)
(* at most, and one record when the run ends with exit_json); and each of  *)
(* its sub-resources is realized once, with everything under it, before    *)
(* all of that when the flag of the resource's state says so               *)
(* (create_or_update_subresource_first for "present",                      *)
(* delete_subresource_first for "absent") and after all of it otherwise.   *)
(***************************************************************************)
\* The fetches of realize: the GETs of a resource that follow no DELETE of it
\* (those that do are the fetches of _wait_till_delete).
Fetches(n) ==
    {j \in RequestsOf(n, "GET") : \A d \in RequestsOf(n, "DELETE") : j < d}

RecordCount(n) == Cardinality({i \in DOMAIN appended : appended[i].node = n})

C23_PhaseOrder ==
    \A n \in Nodes :
        (id[n] \notin {"unset", INCORRECT_ARGUMENT_NAME_VALUE}) =>
            LET st == _state[n] IN
            /\ st \in {"present", "absent"}
            /\ Cardinality(Fetches(n)) = 1
            /\ \A e \in OwnStepsOf(n) : requests[FetchOf(n)].at < e
            /\ RecordCount(n) <= 1
            /\ Cardinality(RequestsOf(n, "PATCH") \cup RequestsOf(n, "DELETE")) <= 1
            /\ outcome = "exit_json" => RecordCount(n) = 1
            /\ \A i \in DOMAIN cfg.sub[n] :
                  LET c == cfg.sub[n][i] IN
                  /\ Cardinality(Fetches(c)) <= 1
                  /\ RecordCount(c) <= 1
                  /\ outcome = "exit_json" => Cardinality(Fetches(c)) = 1
                  /\ \A e \in SubtreeEventsOf(c) : \A o \in OwnStepsOf(n) :
                        IF SubresourcesFirst(n, st) THEN e < o ELSE o < e

\* r is present and its class asks for the sub-resources first: a was
\* realized and recorded before r's PATCH, and the run ended with exit_json.
C23_Witness ==
    /\ outcome = "exit_json"
    /\ cfg.create_first["r"] /\ _state["r"] = "present" /\ id["a"] = "a"
    /\ RequestsOf("r", "PATCH") # {}
    /\ \E i \in DOMAIN appended : \E j \in RequestsOf("r", "PATCH") :
          appended[i].node = "a" /\ appended[i].at < requests[j].at

\* r is absent and its class asks for the sub-resources last: a was realized
\* after r's DELETE and the wait that follows it.
C23_WitnessAbsent ==
    /\ outcome = "exit_json"
    /\ ~cfg.delete_first["r"] /\ _state["r"] = "absent" /\ id["a"] = "a"
    /\ \E i \in DOMAIN appended : \E j \in RequestsOf("r", "DELETE") :
          appended[i].node = "a" /\ requests[j].at < appended[i].at

(***************************************************************************)
(* C24.  What _wait_till_create does with a status.  When the response to  *)
(* a fetch has a 'state', the loop goes on only if the state is "pending"  *)
(* or "in_progress", returns True only if it is "partial_success" or       *)
(* "success", and returns False at once for any other state, the empty     *)
(* string and the proper substrings of those four among them.              *)
(* Violated: `resp['state'] in progress_status` is between two strings, so *)
(* it is true of every substring of a listed state: on "pend" and on ""    *)
(* the loop sleeps and fetches again.                                      *)
(***************************************************************************)
LastResp == NthResp(wait_stream, wait_fetches)

C24_StatusClassification ==
    (wait_fetches >= 1 /\ ~LastResp.raises /\ LastResp.has_state) =>
        /\ waited["r"] = "no" => LastResp.state \in {S_pending, S_in_progress}
        /\ waited["r"] = "ok" => LastResp.state \in {S_partial_success, S_success}
        /\ LastResp.state \notin {S_pending, S_in_progress,
                                  S_partial_success, S_success}
           => waited["r"] = "failed"

\* On the listed states and on "failed" the loop does what C24 says.
ListedStatusClassified ==
    (/\ wait_fetches >= 1 /\ ~LastResp.raises /\ LastResp.has_state
     /\ LastResp.state \in {S_pending, S_in_progress, S_partial_success,
                            S_success, S_failed})
    => /\ waited["r"] = "no"
          => LastResp.state \in {S_pending, S_in_progress} /\ count < MAX_WAIT_COUNT
       /\ waited["r"] = "ok" <=> LastResp.state \in {S_partial_success, S_success}
       /\ LastResp.state = S_failed => waited["r"] = "failed"

(***************************************************************************)
(* C25.  _wait_till_create returns, whatever the fetches are answered,     *)
(* with the 90th fetch at the latest.  A response without 'state' and with *)
(* code 200 returns True at once; a response without 'state' and with      *)
(* another code, and a response whose state is "pending" or "in_progress", *)
(* each add one to the same count; when the count is 90 the call returns   *)
(* False; and when the fetch raises the call returns False.                *)
(***************************************************************************)
Consumes(resp) ==
    /\ ~resp.raises
    /\ \/ ~resp.has_state /\ resp.rc # HTTP_OK
       \/ resp.has_state /\ resp.state \in {S_pending, S_in_progress}

PollerStep ==
    /\ wait_fetches <= MAX_WAIT_COUNT
    /\ count <= wait_fetches
    /\ count = MAX_WAIT_COUNT => waited["r"] = "failed"
    /\ waited["r"] = "no" => count = wait_fetches
    /\ wait_fetches >= 1 =>
          /\ (~LastResp.raises /\ ~LastResp.has_state /\ LastResp.rc = HTTP_OK)
             => waited["r"] = "ok"
          /\ LastResp.raises => waited["r"] = "failed"
          /\ Consumes(LastResp) =>
                /\ count = wait_fetches
                /\ waited["r"] # "ok"
                /\ waited["r"] = "failed" <=> count = MAX_WAIT_COUNT

C25_PollerTerminates == []PollerStep /\ <>(waited["r"] # "no")

\* 89 fetches answered with code 404 and no state, the 90th with
\* "in_progress": the count is 90 and the call has returned False.
C25_Witness ==
    /\ wait_stream = Stream(RespCode(404), MAX_WAIT_COUNT - 1,
                            RespState(S_in_progress))
    /\ wait_fetches = MAX_WAIT_COUNT /\ count = MAX_WAIT_COUNT
    /\ waited["r"] = "failed"

(***************************************************************************)
(* C26.  The wait for a deletion.  After a DELETE that succeeded, as long  *)
(* as every fetch of the resource finds it (and none is signalled as a     *)
(* duplicate) _wait_till_delete has not returned, whatever the number of   *)
(* fetches; a fetch that reports not-found is followed at once by the      *)
(* "deleted" record; and a wait that has begun ends with that record       *)
(* unless a DuplicateRequestError ends the run, the manager being taken to *)
(* remove the resource in the end.                                         *)
(***************************************************************************)
Waiting(n) == Running /\ Top.node = n /\ Top.phase = "wait_delete"

\* The fetches of _wait_till_delete: the GETs of a resource after its DELETE.
PostFetches(n) ==
    {j \in RequestsOf(n, "GET") : \E d \in RequestsOf(n, "DELETE") : d < j}

DeleteWaitStep ==
    \A n \in Nodes :
        /\ Waiting(n) <=>
              /\ \E d \in RequestsOf(n, "DELETE") : requests[d].result = "ok"
              /\ \A j \in PostFetches(n) : requests[j].result = "ok"
        /\ "deleted" \in Whats(n) =>
              \E j \in PostFetches(n) : requests[j].result \notin {"ok", "duplicate"}
        /\ \A j \in PostFetches(n) :
              requests[j].result = "notfound" =>
                  \E i \in DOMAIN appended :
                      /\ appended[i].node = n /\ appended[i].what = "deleted"
                      /\ appended[i].changed
                      /\ appended[i].at = requests[j].at + 1

C26_WitnessWaiting ==
    Waiting("r") /\ Cardinality(PostFetches("r")) = MaxDeletePolls

C27_WitnessCreate ==
    /\ ~check_mode
    /\ FetchOf("a") # 0 /\ requests[FetchOf("a")].result = "notfound"
    /\ Whats("a") = {"created"}
    /\ "_revision" \notin DOMAIN resource_params["a"].v

====
